---- MODULE Spec2Model ----
(***************************************************************************)
(* Ghost data generator: the EmailRecipientsImporter state machine         *)
(* (setReferencedModel / generate) and the DataGenerator orchestrator      *)
(* (sortTableList, clearData, importBasePack, importData).                 *)
(*                                                                         *)
(* Time is an integer; the literal 1000 (recipients per batch) and the     *)
(* 14-day open window are scaled down (BatchSize, OpenWindow).             *)
(***************************************************************************)
EXTENDS Integers, Sequences, FiniteSets, TLC

VARIABLES
    \* ---- storage rows the email_recipients importer loads in import() ----
    emails,                  \* rows of `emails`, in table order
    emailBatches,            \* rows of `email_batches`, in table order
    members,                 \* ids of the rows of `members`
    membersSubscribeEvents,  \* rows of `members_subscribe_events`, in table order
    \* ---- EmailRecipientsImporter instance ----
    imp,                     \* this.batch, model, batchIndex, membersList, events, emailMeta,
                             \* and where the driver stands (phase, pos)
    ret,                     \* what the last generate() call returned
    rows,                    \* log of the rows generated so far: email, member, status
    \* ---- the importer of a second run with the same seed and storage ----
    impB,
    retB,
    runB,                    \* a second importData of the process: its run, session and view
    \* ---- DataGenerator and the process it runs in ----
    opts,                    \* the constructor's options, and the engine and schema it meets
    run,                     \* importData's position, this.tableList, its locals, and a log
    randomBytes,             \* the function crypto.randomBytes is bound to
    faker,                   \* the state of faker and of americanFaker
    session,                 \* FOREIGN_KEY_CHECKS and unique_checks of the connection
    working,                 \* the tables as the open transaction sees them
    committed                \* the tables as committed

storage == <<emails, emailBatches, members, membersSubscribeEvents>>
varsR == <<imp, ret, rows>>
varsB == <<impB, retB, runB>>
varsG == <<opts, run, randomBytes, faker, session, working, committed>>

vars == <<storage, varsR, varsB, varsG>>

----------------------------------------------------------------------------
(* Bounds of the model *)

\* stands for the literal 1000 of slice(batchIndex * 1000, (batchIndex + 1) * 1000)
BatchSize == 2
\* rows of members_subscribe_events
NEvents == 3
\* largest stored failed_count / opened_count / delivered_count
MaxCount == 2

\* stands for the 14 days of latestOpenTime.setDate(getDate() + 14)
OpenWindow == 1
MaxRequested == 2
MaxSeed == 1

EmailIds == {1, 2}
Cutoffs == {1, 2}          \* email_batches.updated_at
CreatedTimes == {0, 1}     \* members_subscribe_events.created_at
NowTimes == {1, 3}         \* values new Date() may return
MemberIds == 1..NEvents

----------------------------------------------------------------------------
(* JavaScript values and array helpers *)

\* null, as the value of a row field (a date string is a tuple, see dateToDatabaseString)
Null == <<>>

Max(a, b) == IF a > b THEN a ELSE b
Min(a, b) == IF a < b THEN a ELSE b

\* Array.prototype.slice(from, to) with 0-based, end-exclusive indices
\* (a negative index counts from the end)
Slice(s, from, to) ==
    LET start == IF from < 0 THEN Max(Len(s) + from, 0) ELSE Min(from, Len(s))
        end == IF to < 0 THEN Max(Len(s) + to, 0) ELSE Min(to, Len(s))
    IN  IF start >= end THEN <<>> ELSE SubSeq(s, start + 1, end)

\* (mutant) the element stays in the array
RemoveAt_Keep(s, i) == s

\* Array.prototype.splice(i, 1): the array without its 0-based element i
RemoveAt(s, i) ==
    IF i < 0 \/ i >= Len(s) THEN s
    ELSE SubSeq(s, 1, i) \o SubSeq(s, i + 2, Len(s))

\* undefined, as the result of emails.find: a row with the id no row has
NoEmail == [id |-> 0, newsletter_id |-> 0, delivered_count |-> 0, opened_count |-> 0, failed_count |-> 0]

\* Array.prototype.find on the emails: the first match or undefined
\* (mutant) a lookup that falls back to the first row
FindById_OrFirst(s, id) ==
    LET hits == SelectSeq(s, LAMBDA r : r.id = id)
    IN  IF hits = <<>> THEN s[1] ELSE hits[1]

FindById(s, id) ==
    LET hits == SelectSeq(s, LAMBDA r : r.id = id)
    IN  IF hits = <<>> THEN NoEmail ELSE hits[1]

\* Array.prototype.findIndex on rows with an id: 0-based, -1 when absent
FindIndexById(s, id) ==
    IF \E i \in 1..Len(s) : s[i].id = id
    THEN (CHOOSE i \in 1..Len(s) : s[i].id = id /\ \A j \in 1..(i - 1) : s[j].id # id) - 1
    ELSE -1

SeqToSet(s) == {s[i] : i \in 1..Len(s)}

----------------------------------------------------------------------------
(* Collaborators that are not part of the importer's own file *)

emailStatus == [delivered |-> "delivered", opened |-> "opened", failed |-> "failed", none |-> "none"]

\* utils/database-date: a Date formatted as the database's date string
dateToDatabaseString(t) == <<"dbdate", t>>

\* the sorted samples of the unit interval that utils/event-generator draws
\* through crypto.randomBytes, one per event (the two ends of the interval)
unitSamples(total) ==
    {x \in [1..total -> {0, 1}] : \A i \in 1..(total - 1) : x[i] <= x[i + 1]}

\* utils/event-generator: the samples laid over the window from startTime to
\* endTime, in the order of the samples
eventsAt(x, startTime, endTime) ==
    [i \in 1..Len(x) |-> startTime + (endTime - startTime) * x[i]]

\* Math.random() * (endDate - startDate) added to startDate, as a Date
deliveredTimes(startDate, endDate) ==
    IF endDate > startDate THEN startDate..(endDate - 1) ELSE endDate..startDate

----------------------------------------------------------------------------
(* EmailRecipientsImporter *)

\* (mutant) every batch takes itself for the first of its email
batchIndexOf_First(batches, model, batch) == 0

\* this.emailBatches.filter(b => b.email_id === this.model.id).findIndex(...)
batchIndexOf(batches, model, batch) ==
    FindIndexById(SelectSeq(batches, LAMBDA b : b.email_id = model.id), batch.id)

\* the filter / filter / map / slice chain that builds this.membersList
membersListOf(subscribeEvents, model, batch, batchIndex) ==
    LET earliestOpenTime == batch.updated_at
        ofNewsletter == SelectSeq(subscribeEvents, LAMBDA e : e.newsletter_id = model.newsletter_id)
        before == SelectSeq(ofNewsletter, LAMBDA e : e.created_at < earliestOpenTime)
        ids == [i \in 1..Len(before) |-> before[i].member_id]
    IN  Slice(ids, batchIndex * BatchSize, (batchIndex + 1) * BatchSize)

\* (mutant) the rows of the earlier batches are not taken off the counters
offsetOf_NoOffset(batchIndex) == 0

\* the offset the residual counters are reduced by
offsetOf(batchIndex) == batchIndex * BatchSize

\* the two assignments of this.emailMeta
emailMetaOf(model, batchIndex) ==
    LET first == [deliveredCount |-> model.delivered_count - model.opened_count,
                  openedCount |-> model.opened_count,
                  failedCount |-> model.failed_count]
        offset == offsetOf(batchIndex)
    IN  [failedCount |-> Max(0, first.failedCount - offset),
         openedCount |-> Max(0, first.openedCount - Max(0, offset - first.failedCount)),
         deliveredCount |-> Max(0, first.deliveredCount
                                    - Max(0, offset - first.failedCount - first.openedCount))]

\* endTime: currentTime < latestOpenTime ? currentTime : latestOpenTime
eventWindowEnd(batch, currentTime) ==
    LET latestOpenTime == batch.updated_at + OpenWindow
    IN  IF currentTime < latestOpenTime THEN currentTime ELSE latestOpenTime

\* (mutant) opened is tried before failed
statusOf_OpenedFirst(meta) ==
    IF meta.openedCount > 0 THEN emailStatus.opened
    ELSE IF meta.failedCount > 0 THEN emailStatus.failed
    ELSE IF meta.deliveredCount > 0 THEN emailStatus.delivered
    ELSE emailStatus.none

\* the status chosen from the residual counters
statusOf(meta) ==
    IF meta.failedCount > 0 THEN emailStatus.failed
    ELSE IF meta.openedCount > 0 THEN emailStatus.opened
    ELSE IF meta.deliveredCount > 0 THEN emailStatus.delivered
    ELSE emailStatus.none

\* (mutant) the counter of the chosen status lowered by two
consume_ByTwo(meta, status) ==
    CASE status = emailStatus.failed -> [meta EXCEPT !.failedCount = @ - 2]
      [] status = emailStatus.opened -> [meta EXCEPT !.openedCount = @ - 2]
      [] status = emailStatus.delivered -> [meta EXCEPT !.deliveredCount = @ - 2]
      [] OTHER -> meta

\* the counter of the chosen status lowered by one
consume(meta, status) ==
    CASE status = emailStatus.failed -> [meta EXCEPT !.failedCount = @ - 1]
      [] status = emailStatus.opened -> [meta EXCEPT !.openedCount = @ - 1]
      [] status = emailStatus.delivered -> [meta EXCEPT !.deliveredCount = @ - 1]
      [] OTHER -> meta

\* the object generate() returns
rowOf(model, batch, memberId, status, timestamp, deliveredTime) ==
    [email_id |-> model.id,
     batch_id |-> batch.id,
     member_id |-> memberId,
     processed_at |-> batch.updated_at,
     delivered_at |-> IF status = emailStatus.opened THEN dateToDatabaseString(deliveredTime)
                      ELSE IF status = emailStatus.delivered THEN dateToDatabaseString(timestamp)
                      ELSE Null,
     opened_at |-> IF status = emailStatus.opened THEN dateToDatabaseString(timestamp) ELSE Null,
     failed_at |-> IF status = emailStatus.failed THEN dateToDatabaseString(timestamp) ELSE Null]

NoBatch == [id |-> 0, email_id |-> 0, updated_at |-> 0]
NoMeta == [failedCount |-> 0, openedCount |-> 0, deliveredCount |-> 0]

\* a freshly constructed importer after import() has loaded its tables
NewImporter ==
    [phase |-> "loaded", pos |-> 0, batch |-> NoBatch, model |-> NoEmail, batchIndex |-> 0,
     membersList |-> <<>>, events |-> <<>>, emailMeta |-> NoMeta]

\* setReferencedModel(model) on importer i for the batch at position pos, with
\* new Date() = currentTime and the event generator sampling x; it throws when
\* no email has the batch's email_id (this.model.id of undefined)
setReferencedModelOf(i, pos, currentTime, x) ==
    LET batch == emailBatches[pos]
        model == FindById(emails, batch.email_id)
    IN  IF model = NoEmail
        THEN [i EXCEPT !.phase = "failed", !.pos = pos, !.batch = batch, !.model = NoEmail,
                       !.membersList = <<>>, !.events = <<>>, !.emailMeta = NoMeta]
        ELSE LET batchIndex == batchIndexOf(emailBatches, model, batch)
                 membersList == membersListOf(membersSubscribeEvents, model, batch, batchIndex)
             IN  [phase |-> "generating", pos |-> pos, batch |-> batch, model |-> model,
                  batchIndex |-> batchIndex,
                  membersList |-> membersList,
                  events |-> IF Len(membersList) > 0
                             THEN eventsAt(x, batch.updated_at, eventWindowEnd(batch, currentTime))
                             ELSE <<>>,
                  emailMeta |-> emailMetaOf(model, batchIndex)]

\* the samples the event generator may draw for the batch at position pos:
\* total = this.membersList.length of them
samplesFor(pos) ==
    LET batch == emailBatches[pos]
        model == FindById(emails, batch.email_id)
    IN  IF model = NoEmail THEN {<<>>}
        ELSE unitSamples(Len(membersListOf(membersSubscribeEvents, model, batch,
                                           batchIndexOf(emailBatches, model, batch))))

\* generate() on importer i when an event is left, with faker.datatype.number
\* returning memberIdIndex and Math.random() placing the delivery at deliveredTime;
\* it throws (member.id of undefined) when no member has the drawn id
generateOf(i, memberIdIndex, deliveredTime) ==
    LET timestamp == Head(i.events)
        memberId == IF memberIdIndex < Len(i.membersList) THEN i.membersList[memberIdIndex + 1] ELSE 0
        status == statusOf(i.emailMeta)
        after == [i EXCEPT !.events = Tail(i.events),
                           !.membersList = RemoveAt(i.membersList, memberIdIndex),
                           !.emailMeta = consume(i.emailMeta, status)]
    IN  IF memberId \in members
        THEN [imp |-> after,
              ret |-> <<rowOf(i.model, i.batch, memberId, status, timestamp, deliveredTime)>>,
              status |-> status]
        ELSE [imp |-> [after EXCEPT !.phase = "failed"], ret |-> <<>>, status |-> status]

\* the values faker.datatype.number({min: 0, max: membersList.length - 1}) may return
memberIdIndexes(i) == 0..Max(0, Len(i.membersList) - 1)

\* the instants Math.random() may place deliveredTime at (only an opened row has one)
deliveredTimesOf(i) ==
    IF statusOf(i.emailMeta) = emailStatus.opened
    THEN deliveredTimes(i.batch.updated_at, Head(i.events))
    ELSE {0}

----------------------------------------------------------------------------
(* The importer driven over the batches (TableImporter.importForEach):    *)
(* setReferencedModel(batch), then generate() until it returns no row      *)

\* the driver hands the next batch to setReferencedModel
SetReferencedModel ==
    /\ imp.phase \in {"loaded", "exhausted"}
    /\ imp.pos < Len(emailBatches)
    /\ \E currentTime \in NowTimes :
         \E x \in samplesFor(imp.pos + 1) :
            imp' = setReferencedModelOf(imp, imp.pos + 1, currentTime, x)
    /\ ret' = <<>>
    /\ UNCHANGED <<storage, rows, varsB, varsG>>

\* the driver calls generate() and gets a row, or an exception
Generate ==
    /\ imp.phase = "generating"
    /\ imp.events # <<>>
    /\ \E memberIdIndex \in memberIdIndexes(imp) :
       \E deliveredTime \in deliveredTimesOf(imp) :
          LET g == generateOf(imp, memberIdIndex, deliveredTime)
          IN  /\ imp' = g.imp
              /\ ret' = g.ret
              /\ rows' = IF g.ret = <<>> THEN rows
                         ELSE Append(rows, [email_id |-> g.ret[1].email_id,
                                            batch_id |-> g.ret[1].batch_id,
                                            member_id |-> g.ret[1].member_id,
                                            status |-> g.status])
    /\ UNCHANGED <<storage, varsB, varsG>>

\* the driver calls generate() and gets no row: events.shift() gave undefined
GenerateNoRow ==
    /\ imp.phase \in {"generating", "exhausted"}
    /\ imp.events = <<>>
    /\ imp' = [imp EXCEPT !.phase = "exhausted"]
    /\ ret' = <<>>
    /\ UNCHANGED <<storage, rows, varsB, varsG>>

\* the driver has handed over every batch and import() returns
FinishImport ==
    /\ imp.phase \in {"loaded", "exhausted"}
    /\ imp.pos = Len(emailBatches)
    /\ imp' = [imp EXCEPT !.phase = "done"]
    /\ UNCHANGED <<storage, ret, rows, varsB, varsG>>

----------------------------------------------------------------------------
(* DataGenerator: the importer registry, the schema and the storage *)

\* Object.keys(importers): the tables that have an importer, in registry order
importerTables ==
    <<"newsletters", "posts", "users", "roles_users", "members",
      "members_subscribe_events", "emails", "email_batches", "email_recipients">>

hasImporter(t) == t \in SeqToSet(importerTables)

\* importers[t].dependencies as declared (EmailRecipientsImporter.dependencies)
declaredDependencies(t) ==
    IF t = "email_recipients"
    THEN <<"emails", "email_batches", "members", "members_subscribe_events">>
    ELSE <<>>

\* the tables the columns of schema[t] reference, in column order
baseReferences(t) ==
    CASE t = "roles_users" -> <<"users">>
      [] t = "posts" -> <<"newsletters">>
      [] t = "members_subscribe_events" -> <<"members", "newsletters">>
      [] t = "emails" -> <<"posts", "newsletters">>
      [] t = "email_batches" -> <<"emails">>
      [] t = "email_recipients" -> <<"emails", "email_batches">>
      [] OTHER -> <<>>

\* one more foreign key the schema may hold: none, to a table without an
\* importer, to subscriptions, one that closes a cycle, one to the table itself
ExtraReferences ==
    {<<>>, <<"users", "roles">>, <<"members", "subscriptions">>,
     <<"newsletters", "posts">>, <<"users", "users">>}

schemaReferences(t) ==
    baseReferences(t) \o (IF opts.extra # <<>> /\ opts.extra[1] = t THEN <<opts.extra[2]>> ELSE <<>>)

\* the reduce over Object.entries(schema[t]) that starts from the importer's
\* declared dependencies
RECURSIVE addReferences(_, _)
addReferences(acc, refs) ==
    IF refs = <<>> THEN acc
    ELSE LET referencedTable == Head(refs)
         IN  addReferences(IF referencedTable \notin SeqToSet(acc) /\ referencedTable # "subscriptions"
                           THEN Append(acc, referencedTable) ELSE acc,
                           Tail(refs))

\* (mutant) the foreign keys of the schema are not followed
dependenciesOf_DeclaredOnly(t) == declaredDependencies(t)

\* table.dependencies
dependenciesOf(t) == addReferences(declaredDependencies(t), schemaReferences(t))

\* the inner loop of sortTableList: push the dependencies that are not in the list
RECURSIVE pushMissing(_, _)
pushMissing(list, deps) ==
    IF deps = <<>> THEN list
    ELSE pushMissing(IF Head(deps) \in SeqToSet(list) THEN list ELSE Append(list, Head(deps)),
                     Tail(deps))

\* the outer loop of sortTableList from position k on: it also visits the
\* tables it pushes, and throws on a table without an importer
\* (table.importer.dependencies of undefined)
RECURSIVE addMissingDependencies(_, _)
addMissingDependencies(list, k) ==
    IF k > Len(list) THEN [error |-> "", list |-> list]
    ELSE IF ~hasImporter(list[k]) THEN [error |-> "TypeError", list |-> list]
    ELSE addMissingDependencies(pushMissing(list, dependenciesOf(list[k])), k + 1)

\* utils/topological-sort: repeatedly take the first table, in list order, whose
\* dependencies are all sorted; a cycle leaves none to take
RECURSIVE topologicalSort(_, _)
topologicalSort(left, sorted) ==
    IF left = <<>> THEN [error |-> "", list |-> sorted]
    ELSE LET ready == {i \in 1..Len(left) :
                          SeqToSet(dependenciesOf(left[i])) \subseteq SeqToSet(sorted)}
         IN  IF ready = {} THEN [error |-> "CyclicDependencyError", list |-> sorted \o left]
             ELSE LET i == CHOOSE x \in ready : \A y \in ready : x <= y
                  IN  topologicalSort(RemoveAt(left, i - 1), Append(sorted, left[i]))

\* sortTableList
sortTableList(list) ==
    LET added == addMissingDependencies(list, 1)
    IN  IF added.error # "" THEN added ELSE topologicalSort(added.list, <<>>)

\* the table list importData works on before the unknown-table check
requestedTables(o) ==
    IF o.tables = <<>> THEN importerTables
    ELSE IF o.withDefault THEN pushMissing(o.tables, importerTables)
    ELSE o.tables

\* lines 162-183 of importData: the list, or the error that ends the run
resolveOf(o) ==
    LET list == requestedTables(o)
    IN  IF \E i \in 1..Len(list) : ~hasImporter(list[i])
        THEN [error |-> "Unknown table", list |-> list]
        ELSE sortTableList(list)

\* clearData's local `tables`: the names reversed, posts_meta in front
Reverse(s) == [i \in 1..Len(s) |-> s[Len(s) + 1 - i]]
clearTablesOf(list) == <<"posts_meta">> \o Reverse(list)

\* (mutant) every table is truncated, users and roles_users too
clearTableOf_TruncateAll(rowsOfTable, t) == {}

\* what one table holds after clearData's statement for it
clearTableOf(rowsOfTable, t) ==
    IF t = "roles_users" THEN {r \in rowsOfTable : r = "1"}      \* del().whereNot('user_id', '1')
    ELSE IF t = "users" THEN {r \in rowsOfTable : r = "1"}       \* del().whereNot('id', '1')
    ELSE {}                                                      \* truncate()

\* importBasePack's tablesToImport
tablesToImport ==
    <<"newsletters", "posts", "tags", "products", "benefits", "products_benefits",
      "stripe_products", "stripe_prices", "settings", "custom_theme_settings">>

\* (mutant) the imported table stays in the list
spliceTable_Keep(list, t) == list

\* this.tableList after findIndex / splice for one base-pack table
spliceTable(list, t) ==
    IF t \in SeqToSet(list)
    THEN RemoveAt(list, (CHOOSE i \in 1..Len(list) : list[i] = t /\ \A j \in 1..(i - 1) : list[j] # t) - 1)
    ELSE list

\* if (this.seed): a number other than 0
seedGiven(o) == o.seed # <<>>
seedTruthy(o) == o.seed # <<>> /\ o.seed[1] # 0

\* faker and americanFaker right after .seed(n), and after generating values
seeded(n) == [seed |-> <<n>>, used |-> FALSE]
usedFaker(f) == [f EXCEPT !.used = TRUE]
unseeded == [seed |-> <<>>, used |-> FALSE]

\* the faker state a table's import starts from (lines 223-227)
fakerAtImport(o, f) == IF seedTruthy(o) THEN seeded(o.seed[1]) ELSE f

\* (mutant) no finally: the override stays when an import throws
randomBytesAfterGenerating_NoRestore(o, current, saved) == current

\* the finally of the Generating loop (lines 239-244)
randomBytesAfterGenerating(o, current, saved) == IF seedTruthy(o) THEN saved ELSE current

\* lines 208-219: crypto.randomBytes once the override is installed
randomBytesWhileGenerating(o, current) == IF seedTruthy(o) THEN "override" ELSE current

\* every table the storage holds
StorageTables ==
    SeqToSet(importerTables) \cup SeqToSet(tablesToImport) \cup {"posts_meta"}

\* the storage before the run: the administrator (id '1') and another user,
\* each with a roles_users entry, and earlier rows in every other table
InitialStorage ==
    [t \in StorageTables |-> IF t \in {"users", "roles_users"} THEN {"1", "2"} ELSE {"old"}]

\* (mutant) the base pack is not waited for: Generating follows clearData
afterClear_SkipBasePack(o) == "prepare"

\* (mutant) a failed run keeps what the transaction wrote
committedAfterRollback_Keep(c, w) == w

\* knex.transaction: what is committed once the callback has thrown
committedAfterRollback(c, w) == c

----------------------------------------------------------------------------
(* DataGenerator.importData, one action per awaited step *)

NewRun ==
    [pc |-> "start", tableList |-> <<>>, i |-> 1, tables |-> <<>>, saved |-> "",
     error |-> "", failedAt |-> "",
     resolved |-> <<>>, cleared |-> <<>>, packed |-> <<>>, imported |-> <<>>,
     finalised |-> <<>>, seenFaker |-> <<>>,
     importing |-> <<>>, instances |-> 0, generatedWith |-> {}, finalisedWith |-> {}]

\* where importData goes once the table list is sorted, or cleared
afterResolve(o) ==
    IF o.clearDatabase THEN "clear" ELSE IF o.useBaseDataPack THEN "basepack_read" ELSE "prepare"
afterClear(o) == IF o.useBaseDataPack THEN "basepack_read" ELSE "prepare"

\* a step threw: the callback of knex.transaction rejects
thrown(r, error) == [r EXCEPT !.pc = "failed", !.failedAt = r.pc, !.error = error]

\* knex.transaction(async (transaction) => { ... })
BeginTransaction ==
    /\ run.pc = "start"
    /\ run' = [run EXCEPT !.pc = IF opts.sqlite THEN "resolve" ELSE "fk_off",
                          !.tableList = opts.tables]
    /\ UNCHANGED <<storage, varsR, varsB, opts, randomBytes, faker, session, working, committed>>

\* SET FOREIGN_KEY_CHECKS=0
DisableForeignKeyChecks ==
    /\ run.pc = "fk_off"
    /\ session' = [session EXCEPT !.foreign_key_checks = 0]
    /\ run' = [run EXCEPT !.pc = "unique_off"]
    /\ UNCHANGED <<storage, varsR, varsB, opts, randomBytes, faker, working, committed>>

\* SET unique_checks=0
DisableUniqueChecks ==
    /\ run.pc = "unique_off"
    /\ session' = [session EXCEPT !.unique_checks = 0]
    /\ run' = [run EXCEPT !.pc = "resolve"]
    /\ UNCHANGED <<storage, varsR, varsB, opts, randomBytes, faker, working, committed>>

\* the default list, the unknown-table check, sortTableList, printDependencies
Resolve ==
    /\ run.pc = "resolve"
    /\ LET r == resolveOf([opts EXCEPT !.tables = run.tableList])
       IN  run' = IF r.error # ""
                  THEN [thrown(run, r.error) EXCEPT !.tableList = r.list]
                  ELSE IF opts.printDependencies
                  THEN [run EXCEPT !.pc = "exited", !.tableList = r.list, !.resolved = r.list]
                  ELSE [run EXCEPT !.pc = afterResolve(opts), !.tableList = r.list,
                                   !.resolved = r.list, !.i = 1,
                                   !.tables = IF opts.clearDatabase THEN clearTablesOf(r.list) ELSE <<>>]
    /\ UNCHANGED <<storage, varsR, varsB, opts, randomBytes, faker, session, working, committed>>

\* clearData: one statement of its loop
ClearTable ==
    /\ run.pc = "clear"
    /\ LET table == run.tables[run.i]
       IN  /\ working' = [working EXCEPT ![table] = clearTableOf(@, table)]
           /\ run' = [run EXCEPT !.cleared = Append(@, table),
                                 !.i = @ + 1,
                                 !.pc = IF run.i = Len(run.tables) THEN "cleared" ELSE "clear"]
    /\ UNCHANGED <<storage, varsR, varsB, opts, randomBytes, faker, session, committed>>

\* clearData has returned
ClearDone ==
    /\ run.pc = "cleared"
    /\ run' = [run EXCEPT !.pc = afterClear(opts), !.i = 1]
    /\ UNCHANGED <<storage, varsR, varsB, opts, randomBytes, faker, session, working, committed>>

\* importBasePack: fs.readFile and JSON.parse
ReadBasePack ==
    /\ run.pc = "basepack_read"
    /\ run' = [run EXCEPT !.pc = "basepack_settings"]
    /\ UNCHANGED <<storage, varsR, varsB, opts, randomBytes, faker, session, working, committed>>

\* importBasePack: transaction('settings').del()
DeleteSettings ==
    /\ run.pc = "basepack_settings"
    /\ working' = [working EXCEPT !["settings"] = {}]
    /\ run' = [run EXCEPT !.pc = "basepack_import", !.i = 1]
    /\ UNCHANGED <<storage, varsR, varsB, opts, randomBytes, faker, session, committed>>

\* importBasePack: one table of tablesToImport, then its removal from tableList
ImportBasePackTable ==
    /\ run.pc = "basepack_import"
    /\ LET table == tablesToImport[run.i]
       IN  /\ working' = [working EXCEPT ![table] = @ \cup {"pack"}]
           /\ run' = [run EXCEPT !.tableList = spliceTable(@, table),
                                 !.packed = Append(@, table),
                                 !.i = @ + 1,
                                 !.pc = IF run.i = Len(tablesToImport) THEN "prepare" ELSE "basepack_import"]
    /\ UNCHANGED <<storage, varsR, varsB, opts, randomBytes, faker, session, committed>>

\* the quantities, the saved crypto.randomBytes and the override
Prepare ==
    /\ run.pc = "prepare"
    /\ randomBytes' = randomBytesWhileGenerating(opts, randomBytes)
    /\ run' = [run EXCEPT !.pc = "generate", !.i = 1, !.saved = randomBytes]
    /\ UNCHANGED <<storage, varsR, varsB, opts, faker, session, working, committed>>

\* the loop's await: the next table's import starts when none is in flight
mayStartImport(r) == r.importing = <<>>

\* the Generating loop: reseed, a new importer for the table, import() called
StartImport ==
    /\ run.pc = "generate"
    /\ run.i <= Len(run.tableList)
    /\ mayStartImport(run)
    /\ LET table == run.tableList[run.i]
           start == fakerAtImport(opts, faker)
       IN  /\ faker' = start
           /\ run' = [run EXCEPT !.importing = Append(@, table),
                                 !.seenFaker = Append(@, start),
                                 !.instances = @ + 1,
                                 !.generatedWith = @ \cup {run.instances + 1}]
    /\ UNCHANGED <<storage, varsR, varsB, opts, randomBytes, session, working, committed>>

\* the Generating loop: the awaited import() of the table has resolved
ImportTable ==
    /\ run.pc = "generate"
    /\ run.importing # <<>>
    /\ LET table == Head(run.importing)
       IN  /\ faker' = usedFaker(faker)
           /\ working' = [working EXCEPT ![table] = @ \cup {"gen"}]
           /\ run' = [run EXCEPT !.imported = Append(@, table),
                                 !.importing = Tail(@),
                                 !.i = @ + 1]
    /\ UNCHANGED <<storage, varsR, varsB, opts, randomBytes, session, committed>>

\* the finally of the Generating loop, after its last table
EndGenerating ==
    /\ run.pc = "generate"
    /\ run.i > Len(run.tableList)
    /\ randomBytes' = randomBytesAfterGenerating(opts, randomBytes, run.saved)
    /\ run' = [run EXCEPT !.pc = "finalise", !.i = 1]
    /\ UNCHANGED <<storage, varsR, varsB, opts, faker, session, working, committed>>

\* the finalise loop: a new importer for the table, finalise() awaited
FinaliseTable ==
    /\ run.pc = "finalise"
    /\ run.i <= Len(run.tableList)
    /\ run' = [run EXCEPT !.finalised = Append(@, run.tableList[run.i]),
                          !.instances = @ + 1,
                          !.finalisedWith = @ \cup {run.instances + 1},
                          !.i = @ + 1]
    /\ UNCHANGED <<storage, varsR, varsB, opts, randomBytes, faker, session, working, committed>>

EndFinalise ==
    /\ run.pc = "finalise"
    /\ run.i > Len(run.tableList)
    /\ run' = [run EXCEPT !.pc = IF opts.sqlite THEN "commit" ELSE "fk_on"]
    /\ UNCHANGED <<storage, varsR, varsB, opts, randomBytes, faker, session, working, committed>>

\* SET FOREIGN_KEY_CHECKS=1
EnableForeignKeyChecks ==
    /\ run.pc = "fk_on"
    /\ session' = [session EXCEPT !.foreign_key_checks = 1]
    /\ run' = [run EXCEPT !.pc = "unique_on"]
    /\ UNCHANGED <<storage, varsR, varsB, opts, randomBytes, faker, working, committed>>

\* SET unique_checks=1
EnableUniqueChecks ==
    /\ run.pc = "unique_on"
    /\ session' = [session EXCEPT !.unique_checks = 1]
    /\ run' = [run EXCEPT !.pc = "commit"]
    /\ UNCHANGED <<storage, varsR, varsB, opts, randomBytes, faker, working, committed>>

\* the callback resolved: knex commits
Commit ==
    /\ run.pc = "commit"
    /\ committed' = working
    /\ run' = [run EXCEPT !.pc = "resolved"]
    /\ UNCHANGED <<storage, varsR, varsB, opts, randomBytes, faker, session, working>>

\* the positions at which importData awaits the storage, the file system or an importer
awaiting(r) ==
    \/ r.pc \in {"fk_off", "unique_off", "clear", "basepack_read", "basepack_settings",
                 "basepack_import", "fk_on", "unique_on", "commit"}
    \/ r.pc = "generate" /\ r.importing # <<>>
    \/ r.pc = "finalise" /\ r.i <= Len(r.tableList)

\* the awaited step throws; inside the Generating loop the finally runs first
StepThrows ==
    /\ awaiting(run)
    /\ run' = thrown(run, "Error")
    /\ faker' = IF run.pc = "generate" THEN usedFaker(faker) ELSE faker
    /\ randomBytes' = IF run.pc = "generate"
                      THEN randomBytesAfterGenerating(opts, randomBytes, run.saved)
                      ELSE randomBytes
    /\ UNCHANGED <<storage, varsR, varsB, opts, session, working, committed>>

\* the callback rejected: knex rolls back and importData rejects
Rollback ==
    /\ run.pc = "failed"
    /\ committed' = committedAfterRollback(committed, working)
    /\ working' = committedAfterRollback(committed, working)
    /\ run' = [run EXCEPT !.pc = "rejected"]
    /\ UNCHANGED <<storage, varsR, varsB, opts, randomBytes, faker, session>>

----------------------------------------------------------------------------
(* Storage contents the importer may find *)

Counts == 0..MaxCount

\* the email the batches are sent for, and another email of another newsletter
EmailRows ==
    {[id |-> 1, newsletter_id |-> 1, delivered_count |-> d, opened_count |-> o, failed_count |-> f] :
        d \in Counts, o \in Counts, f \in Counts}
OtherEmail == [id |-> 2, newsletter_id |-> 2, delivered_count |-> 1, opened_count |-> 0, failed_count |-> 1]

\* one or two batches with their ids in table order, at least one of them of email 1
BatchLists ==
    UNION {{[i \in 1..n |-> [id |-> i, email_id |-> e[i], updated_at |-> c[i]]] :
                e \in {x \in [1..n -> EmailIds] : \E i \in 1..n : x[i] = 1},
                c \in [1..n -> Cutoffs]} : n \in {1, 2}}

\* a subscribe event of the last member to the other newsletter, then one
\* subscribe event per member to newsletter 1, in member order
SubscribeEventLists ==
    {<<[id |-> NEvents + 1, newsletter_id |-> 2, created_at |-> 0, member_id |-> NEvents]>>
       \o [i \in 1..NEvents |-> [id |-> i, newsletter_id |-> 1, created_at |-> c[i], member_id |-> i]] :
        c \in [1..NEvents -> CreatedTimes]}

\* the second run is not started
IdleB ==
    /\ impB = [NewImporter EXCEPT !.phase = "idle"]
    /\ retB = <<>>
    /\ runB = [run |-> [NewRun EXCEPT !.pc = "idle"],
               session |-> [foreign_key_checks |-> 1, unique_checks |-> 1],
               working |-> InitialStorage]

\* no importData is running
IdleG ==
    /\ opts = [tables |-> <<>>, withDefault |-> FALSE, clearDatabase |-> FALSE,
               useBaseDataPack |-> FALSE, printDependencies |-> FALSE, seed |-> <<>>,
               sqlite |-> TRUE, extra |-> <<>>]
    /\ run = [NewRun EXCEPT !.pc = "idle"]
    /\ randomBytes = "original"
    /\ faker = unseeded
    /\ session = [foreign_key_checks |-> 1, unique_checks |-> 1]
    /\ working = InitialStorage
    /\ committed = InitialStorage

InitR ==
    /\ \E e \in EmailRows : emails = <<e, OtherEmail>>
    /\ emailBatches \in BatchLists
    /\ members = MemberIds
    /\ membersSubscribeEvents \in SubscribeEventLists
    /\ imp = NewImporter
    /\ ret = <<>>
    /\ rows = <<>>
    /\ IdleB
    /\ IdleG

NextR == SetReferencedModel \/ Generate \/ GenerateNoRow \/ FinishImport

SpecR == InitR /\ [][NextR]_vars

\* the same storage with fewer stored counts: they decide the statuses of the
\* rows, not how many calls of generate() a batch takes
InitRFair ==
    /\ \E e \in {r \in EmailRows : r.failed_count = r.opened_count /\ r.delivered_count = MaxCount} :
          emails = <<e, OtherEmail>>
    /\ emailBatches \in BatchLists
    /\ members = MemberIds
    /\ membersSubscribeEvents \in SubscribeEventLists
    /\ imp = NewImporter
    /\ ret = <<>>
    /\ rows = <<>>
    /\ IdleB
    /\ IdleG

\* importForEach keeps calling while there is a batch or a row to ask for
SpecRFair == InitRFair /\ [][NextR]_vars /\ WF_vars(NextR)

\* storage whose references dangle: the emails table has lost email 2, which
\* batches may still name, and the members table has lost the last member,
\* whom subscribe events still name
InitOrphan ==
    /\ \E e \in EmailRows : emails = <<e>>
    /\ emailBatches \in BatchLists
    /\ members = MemberIds \ {NEvents}
    /\ membersSubscribeEvents \in SubscribeEventLists
    /\ imp = NewImporter
    /\ ret = <<>>
    /\ rows = <<>>
    /\ IdleB
    /\ IdleG

SpecOrphan == InitOrphan /\ [][NextR]_vars

----------------------------------------------------------------------------
(* Two runs of importData with the same seed on the same storage contents, *)
(* side by side in the email_recipients import.  Both runs draw the same   *)
(* values from the seeded source (faker, and the crypto.randomBytes        *)
(* override behind the event generator); each run reads its own clock     *)
(* (new Date()) and its own Math.random().                                 *)

\* both runs reseed faker (faker.seed(this.seed)) and start the table's import
PairImport ==
    /\ imp.phase = "idle" /\ impB.phase = "idle"
    /\ imp' = NewImporter
    /\ impB' = NewImporter
    /\ UNCHANGED <<storage, ret, rows, retB, runB, varsG>>

\* both runs hand the next batch to setReferencedModel
PairSetReferencedModel ==
    /\ imp.phase \in {"loaded", "exhausted"}
    /\ impB.phase = imp.phase
    /\ imp.pos < Len(emailBatches)
    /\ \E x \in samplesFor(imp.pos + 1) :
       \E currentTime \in NowTimes, currentTimeB \in NowTimes :
          /\ imp' = setReferencedModelOf(imp, imp.pos + 1, currentTime, x)
          /\ impB' = setReferencedModelOf(impB, impB.pos + 1, currentTimeB, x)
    /\ ret' = <<>>
    /\ retB' = <<>>
    /\ UNCHANGED <<storage, rows, runB, varsG>>

\* both runs call generate() and get a row
PairGenerate ==
    /\ imp.phase = "generating" /\ impB.phase = "generating"
    /\ imp.events # <<>> /\ impB.events # <<>>
    /\ \E memberIdIndex \in memberIdIndexes(imp) :
       \E deliveredTime \in deliveredTimesOf(imp), deliveredTimeB \in deliveredTimesOf(impB) :
          LET g == generateOf(imp, memberIdIndex, deliveredTime)
              gB == generateOf(impB, memberIdIndex, deliveredTimeB)
          IN  /\ imp' = g.imp
              /\ ret' = g.ret
              /\ impB' = gB.imp
              /\ retB' = gB.ret
              /\ rows' = IF g.ret = <<>> THEN rows
                         ELSE Append(rows, [email_id |-> g.ret[1].email_id,
                                            batch_id |-> g.ret[1].batch_id,
                                            member_id |-> g.ret[1].member_id,
                                            status |-> g.status])
    /\ UNCHANGED <<storage, runB, varsG>>

\* both runs call generate() and get no row
PairGenerateNoRow ==
    /\ imp.phase \in {"generating", "exhausted"} /\ impB.phase \in {"generating", "exhausted"}
    /\ imp.events = <<>> /\ impB.events = <<>>
    /\ imp' = [imp EXCEPT !.phase = "exhausted"]
    /\ impB' = [impB EXCEPT !.phase = "exhausted"]
    /\ ret' = <<>>
    /\ retB' = <<>>
    /\ UNCHANGED <<storage, rows, runB, varsG>>

\* both imports return
PairFinish ==
    /\ imp.phase \in {"loaded", "exhausted"}
    /\ impB.phase = imp.phase
    /\ imp.pos = Len(emailBatches)
    /\ imp' = [imp EXCEPT !.phase = "done"]
    /\ impB' = [impB EXCEPT !.phase = "done"]
    /\ UNCHANGED <<storage, ret, rows, retB, runB, varsG>>

InitPair ==
    /\ \E e \in EmailRows : emails = <<e, OtherEmail>>
    /\ emailBatches \in BatchLists
    /\ members = MemberIds
    /\ membersSubscribeEvents \in SubscribeEventLists
    /\ imp = [NewImporter EXCEPT !.phase = "idle"]
    /\ ret = <<>>
    /\ rows = <<>>
    /\ IdleB
    /\ IdleG

NextPair ==
    PairImport \/ PairSetReferencedModel \/ PairGenerate \/ PairGenerateNoRow \/ PairFinish

SpecPair == InitPair /\ [][NextPair]_vars

----------------------------------------------------------------------------
(* One run of importData, over the options it may be constructed with *)

Requestable == {"roles_users", "emails", "email_recipients", "nope"}

\* the `tables` option: up to MaxRequested distinct names
RequestedLists ==
    UNION {{x \in [1..n -> Requestable] : \A i, j \in 1..n : i # j => x[i] # x[j]} :
              n \in 0..MaxRequested}

\* the `seed` option: absent, or a number
Seeds == {<<>>} \cup {<<n>> : n \in 0..MaxSeed}

Init ==
    /\ opts \in [tables : RequestedLists, withDefault : BOOLEAN, clearDatabase : BOOLEAN,
                 useBaseDataPack : BOOLEAN, printDependencies : BOOLEAN, seed : Seeds,
                 sqlite : BOOLEAN, extra : ExtraReferences]
    /\ run = NewRun
    /\ randomBytes = "original"
    /\ faker = unseeded
    /\ session = [foreign_key_checks |-> 1, unique_checks |-> 1]
    /\ working = InitialStorage
    /\ committed = InitialStorage
    /\ emails = <<>>
    /\ emailBatches = <<>>
    /\ members = {}
    /\ membersSubscribeEvents = <<>>
    /\ imp = [NewImporter EXCEPT !.phase = "idle"]
    /\ ret = <<>>
    /\ rows = <<>>
    /\ IdleB

Next ==
    \/ BeginTransaction
    \/ DisableForeignKeyChecks
    \/ DisableUniqueChecks
    \/ Resolve
    \/ ClearTable
    \/ ClearDone
    \/ ReadBasePack
    \/ DeleteSettings
    \/ ImportBasePackTable
    \/ Prepare
    \/ StartImport
    \/ ImportTable
    \/ EndGenerating
    \/ FinaliseTable
    \/ EndFinalise
    \/ EnableForeignKeyChecks
    \/ EnableUniqueChecks
    \/ Commit
    \/ StepThrows
    \/ Rollback

Spec == Init /\ [][Next]_vars

----------------------------------------------------------------------------
(* Two importData calls of one process that overlap: each has its own      *)
(* transaction (its view of the tables, its session), both share           *)
(* crypto.randomBytes, faker and the committed tables.  The actions work   *)
(* on the call that is running; at an await the other call may go on.      *)

\* the call that was running waits, the other call goes on
Switch ==
    /\ run.pc # "idle"
    /\ runB.run.pc \notin {"idle", "resolved", "rejected", "exited"}
    /\ run' = runB.run
    /\ session' = runB.session
    /\ working' = runB.working
    /\ runB' = [run |-> run, session |-> session, working |-> working]
    /\ UNCHANGED <<storage, varsR, impB, retB, opts, randomBytes, faker, committed>>

\* both calls are seeded, on SQLite, for one requested table and what it depends on
InitTwo ==
    /\ opts \in [tables : {t \in RequestedLists : Len(t) = 1 /\ hasImporter(t[1])},
                 withDefault : {FALSE}, clearDatabase : {FALSE}, useBaseDataPack : {FALSE},
                 printDependencies : {FALSE}, seed : Seeds \ {<<>>}, sqlite : {TRUE},
                 extra : {<<>>}]
    /\ run = NewRun
    /\ runB = [run |-> NewRun,
               session |-> [foreign_key_checks |-> 1, unique_checks |-> 1],
               working |-> InitialStorage]
    /\ randomBytes = "original"
    /\ faker = unseeded
    /\ session = [foreign_key_checks |-> 1, unique_checks |-> 1]
    /\ working = InitialStorage
    /\ committed = InitialStorage
    /\ emails = <<>>
    /\ emailBatches = <<>>
    /\ members = {}
    /\ membersSubscribeEvents = <<>>
    /\ imp = [NewImporter EXCEPT !.phase = "idle"]
    /\ ret = <<>>
    /\ rows = <<>>
    /\ impB = [NewImporter EXCEPT !.phase = "idle"]
    /\ retB = <<>>

NextTwo ==
    \/ Switch
    \/ BeginTransaction
    \/ Resolve
    \/ Prepare
    \/ StartImport
    \/ ImportTable
    \/ EndGenerating
    \/ FinaliseTable
    \/ EndFinalise
    \/ Commit
    \/ StepThrows
    \/ Rollback

SpecTwo == InitTwo /\ [][NextTwo]_vars

----------------------------------------------------------------------------
(* Claims about the recipient status state machine, checked under SpecR *)

\* the number of generated rows of email e with status st
CountRows(e, st) ==
    Cardinality({i \in 1..Len(rows) : rows[i].email_id = e /\ rows[i].status = st})

\* the number of generated rows of email e
RowsOf(e) == Cardinality({i \in 1..Len(rows) : rows[i].email_id = e})

\* C1: once every batch has been run to exhaustion, an email whose stored
\* counts are consistent (delivered_count >= opened_count) and that got at
\* least failed_count + delivered_count recipients has exactly failed_count
\* failed rows, opened_count opened rows and delivered_count - opened_count
\* delivered rows, whatever the batch cutoffs and slice sizes were.
C1_TotalsEqualStoredCounts ==
    imp.phase = "done" =>
        \A i \in 1..Len(emails) :
            LET m == emails[i]
            IN  (m.delivered_count >= m.opened_count
                 /\ RowsOf(m.id) >= m.failed_count + m.delivered_count)
                => /\ CountRows(m.id, "failed") = m.failed_count
                   /\ CountRows(m.id, "opened") = m.opened_count
                   /\ CountRows(m.id, "delivered") = m.delivered_count - m.opened_count

\* C2: no member id appears in two generated rows of the same email.
C2_NoMemberTwice ==
    \A i \in 1..Len(rows) : \A j \in 1..Len(rows) :
        (i # j /\ rows[i].email_id = rows[j].email_id) => rows[i].member_id # rows[j].member_id

\* C3: at every point the rows generated for an email number at most
\* failed_count failed, at most opened_count opened, and at most
\* delivered_count - opened_count (or 0 when that is negative) delivered.
C3_TotalsNeverExceed ==
    \A i \in 1..Len(emails) :
        LET m == emails[i]
        IN  /\ CountRows(m.id, "failed") <= m.failed_count
            /\ CountRows(m.id, "opened") <= m.opened_count
            /\ CountRows(m.id, "delivered") <= Max(0, m.delivered_count - m.opened_count)

\* C3 witness: a second batch of email 1 is being generated after a full first
\* batch, and a failed, an opened and a delivered row have used up all three
\* stored counts.
C3_Witness ==
    /\ imp.phase = "generating"
    /\ imp.model.id = 1
    /\ imp.batchIndex = 1
    /\ RowsOf(1) = BatchSize + 1
    /\ CountRows(1, "failed") = emails[1].failed_count
    /\ CountRows(1, "opened") = emails[1].opened_count
    /\ CountRows(1, "delivered") = emails[1].delivered_count - emails[1].opened_count
    /\ emails[1].failed_count > 0 /\ emails[1].opened_count > 0
    /\ emails[1].delivered_count > emails[1].opened_count

\* C4: a generate() call that returns a row picks the status by strict
\* priority on the counters as they were before the call (failed, opened,
\* delivered, none), lowers exactly the chosen counter by one, and fills
\* failed_at only / delivered_at and opened_at / delivered_at only (the popped
\* timestamp) / none of the three.
C4_StatusByPriority ==
    [][Len(rows') = Len(rows) + 1 =>
        LET before == imp.emailMeta
            after == imp'.emailMeta
            st == rows'[Len(rows')].status
            r == ret'[1]
            popped == dateToDatabaseString(Head(imp.events))
        IN  /\ ret' # <<>>
            /\ before.failedCount > 0 => st = "failed"
            /\ (before.failedCount <= 0 /\ before.openedCount > 0) => st = "opened"
            /\ (before.failedCount <= 0 /\ before.openedCount <= 0 /\ before.deliveredCount > 0)
                 => st = "delivered"
            /\ (before.failedCount <= 0 /\ before.openedCount <= 0 /\ before.deliveredCount <= 0)
                 => st = "none"
            /\ after.failedCount = before.failedCount - (IF st = "failed" THEN 1 ELSE 0)
            /\ after.openedCount = before.openedCount - (IF st = "opened" THEN 1 ELSE 0)
            /\ after.deliveredCount = before.deliveredCount - (IF st = "delivered" THEN 1 ELSE 0)
            /\ st = "failed" => (r.failed_at = popped /\ r.delivered_at = Null /\ r.opened_at = Null)
            /\ st = "opened" => (r.opened_at = popped /\ r.delivered_at # Null /\ r.failed_at = Null)
            /\ st = "delivered" => (r.delivered_at = popped /\ r.opened_at = Null /\ r.failed_at = Null)
            /\ st = "none" => (r.delivered_at = Null /\ r.opened_at = Null /\ r.failed_at = Null)
    ]_vars

\* C4 witness: generate() has just returned a row with no status for email 1
\* (all three counters were 0) after a failed, an opened or a delivered row
\* came out of the same batch.
C4_Witness ==
    /\ ret # <<>>
    /\ ret[1].email_id = 1
    /\ ret[1].delivered_at = Null /\ ret[1].opened_at = Null /\ ret[1].failed_at = Null
    /\ imp.batchIndex = 0
    /\ RowsOf(1) = 2
    /\ CountRows(1, "none") = 1

\* C5: two runs with the same seed, table list, quantities and storage contents
\* generate identical rows: the row a generate() call returns in one run is
\* the row the same call returns in the other.
C5_SeededRunsIdentical == ret = retB

counters == {"failedCount", "openedCount", "deliveredCount"}

\* C16: the residual counters of emailMeta are never negative, whatever the
\* stored counts (delivered_count below opened_count included) and the batch
\* index; a generate() call leaves each counter as it is or lowers it by 1;
\* and the value setReferencedModel gives a counter for the next batch of the
\* same email is not above the counter's value at the end of the batch before.
C16_CountersOnlyDecrease ==
    /\ [](\A c \in counters : imp.emailMeta[c] >= 0)
    /\ [](imp.phase \in {"generating", "exhausted"} =>
              \A c \in counters :
                  imp.emailMeta[c] >= emailMetaOf(imp.model, imp.batchIndex + 1)[c])
    /\ [][(imp'.pos = imp.pos) =>
              \A c \in counters :
                  imp'.emailMeta[c] \in {imp.emailMeta[c], imp.emailMeta[c] - 1}]_vars
    /\ [][(imp'.pos # imp.pos /\ imp.pos > 0 /\ imp'.model = imp.model) =>
              \A c \in counters : imp'.emailMeta[c] <= imp.emailMeta[c]]_vars

\* the second batch of an email that stores fewer deliveries than opens, begun
\* after the first batch gave rows
C16_Witness ==
    /\ imp.phase = "generating"
    /\ imp.batchIndex = 1
    /\ imp.model.delivered_count < imp.model.opened_count
    /\ imp.model.failed_count > 0
    /\ Len(rows) >= 1

\* C17: a row with status opened has processed_at <= delivered_at <= opened_at,
\* for every batch, one whose updated_at is later than the clock included.
C17_OpenedRowTimesOrdered ==
    (ret # <<>> /\ ret[1].opened_at # Null) =>
        /\ ret[1].processed_at <= ret[1].delivered_at[2]
        /\ ret[1].delivered_at[2] <= ret[1].opened_at[2]

\* the eligible recipients of the batch in hand: the subscribe events of the
\* email's newsletter from before the batch's updated_at
eligibleOfBatch ==
    SelectSeq(membersSubscribeEvents,
              LAMBDA e : /\ e.newsletter_id = imp.model.newsletter_id
                         /\ e.created_at < imp.batch.updated_at)

\* the batch's position among the batches of its email, in table order
positionInEmail ==
    Cardinality({j \in 1..(imp.pos - 1) : emailBatches[j].email_id = imp.batch.email_id})

\* how many eligible entries lie at positions [position * 1000, (position + 1) * 1000)
sliceSize ==
    Max(0, Min(Len(eligibleOfBatch), (positionInEmail + 1) * BatchSize)
             - positionInEmail * BatchSize)

rowsOfBatch == Cardinality({k \in 1..Len(rows) : rows[k].batch_id = imp.batch.id})

----------------------------------------------------------------------------
(* Claims about importData, checked under Spec *)

ended == run.pc \in {"resolved", "rejected", "exited"}

\* C6: whenever importData ends, by completing, by exiting or by a failure in
\* any phase, crypto.randomBytes is the function it was when importData
\* started; the override is in place only while the tables are generated.
C6_RandomBytesRestored ==
    /\ ended => randomBytes = "original"
    /\ randomBytes # "original" => run.pc = "generate"

\* a seeded run whose second or later table import threw, after the override
\* had been installed
C6_Witness ==
    /\ run.pc = "rejected"
    /\ run.failedAt = "generate"
    /\ seedTruthy(opts)
    /\ run.saved = "original"
    /\ Len(run.imported) >= 1

\* C7: if a seed was supplied, any number, 0 included, every table's import
\* starts from the random source as the seed leaves it, whatever was imported
\* before.
C7_ReseededBeforeEveryTable ==
    seedGiven(opts) =>
        \A k \in 1..Len(run.seenFaker) : run.seenFaker[k] = seeded(opts.seed[1])

\* the dependencies of a table: those its importer declares and those inferred
\* from the foreign keys of the schema, references to subscriptions left out
DeclaredOrInferred(t) ==
    SeqToSet(declaredDependencies(t)) \cup (SeqToSet(schemaReferences(t)) \ {"subscriptions"})

IsPrefix(s, t) == Len(s) <= Len(t) /\ s = SubSeq(t, 1, Len(s))

\* C8: once sortTableList has returned, every dependency of every table of the
\* list is in the list at an earlier position, and the Generating phase
\* imports the tables in that order (those the base pack took out are skipped).
C8_DependenciesFirst ==
    /\ \A k \in 1..Len(run.resolved) :
           \A d \in DeclaredOrInferred(run.resolved[k]) :
               \E j \in 1..(k - 1) : run.resolved[j] = d
    /\ IsPrefix(run.imported,
                SelectSeq(run.resolved, LAMBDA t : t \notin SeqToSet(run.packed)))

\* a requested list that sortTableList extended and reordered, fully imported
C8_Witness ==
    /\ run.pc = "finalise"
    /\ opts.tables # <<>>
    /\ Len(run.resolved) > Len(requestedTables(opts))
    /\ run.resolved[1] # opts.tables[1]
    /\ run.imported = run.resolved

\* C9: when clearData has returned on a list that holds users and roles_users,
\* users holds the administrator's row only, roles_users the administrator's
\* entry only, every other table of the list is empty, and the tables were
\* cleared in the reverse of the list's order.
C9_ClearKeepsAdministrator ==
    (run.pc = "cleared" /\ {"users", "roles_users"} \subseteq SeqToSet(run.tableList)) =>
        /\ working["users"] = {"1"}
        /\ working["roles_users"] = {"1"}
        /\ \A t \in SeqToSet(run.tableList) \ {"users", "roles_users"} : working[t] = {}
        /\ SelectSeq(run.cleared, LAMBDA t : t # "posts_meta") = Reverse(run.tableList)

C9_Witness ==
    /\ run.pc = "cleared"
    /\ {"users", "roles_users", "emails"} \subseteq SeqToSet(run.tableList)
    /\ InitialStorage["users"] = {"1", "2"}
    /\ InitialStorage["emails"] # {}

\* C10: the writes of a run are committed only if every phase completed; if
\* any step throws, the transaction is rolled back and nothing is committed.
C10_CommitOnlyWhenComplete ==
    /\ committed # InitialStorage => run.pc = "resolved"
    /\ run.pc = "resolved" =>
           /\ run.error = ""
           /\ opts.clearDatabase => run.cleared = clearTablesOf(run.resolved)
           /\ opts.useBaseDataPack => run.packed = tablesToImport
           /\ run.imported = run.tableList
           /\ run.finalised = run.tableList
    /\ run.pc = "rejected" => committed = InitialStorage /\ working = InitialStorage

\* a run that cleared and imported tables and then failed
C10_Witness ==
    /\ run.pc = "rejected"
    /\ run.cleared # <<>>
    /\ Len(run.imported) >= 1
    /\ run.failedAt \in {"generate", "finalise", "commit"}

\* C11: within one run the phases follow one another in a fixed order: no
\* table's import starts before clearing (if requested) and the base pack (if
\* requested) are done, the base pack is not imported before clearing is done,
\* at most one import is in flight, no finalise is called before every table
\* is imported, finalise runs on importer instances that generated nothing,
\* and the commit follows the finalise of every table.
C11_PhasesInOrder ==
    /\ (run.importing # <<>> \/ run.imported # <<>>) =>
           /\ run.resolved # <<>>
           /\ opts.clearDatabase => run.cleared = clearTablesOf(run.resolved)
           /\ opts.useBaseDataPack => run.packed = tablesToImport
    /\ (run.packed # <<>> /\ opts.clearDatabase) => run.cleared = clearTablesOf(run.resolved)
    /\ run.cleared # <<>> => run.resolved # <<>>
    /\ Len(run.importing) <= 1
    /\ run.finalised # <<>> => (run.imported = run.tableList /\ run.importing = <<>>)
    /\ run.generatedWith \cap run.finalisedWith = {}
    /\ run.pc = "resolved" => run.finalised = run.tableList

\* a committed run that cleared, imported the base pack, generated and finalised
C11_Witness ==
    /\ run.pc = "resolved"
    /\ opts.clearDatabase
    /\ opts.useBaseDataPack
    /\ Len(run.imported) >= 2
    /\ Cardinality(run.finalisedWith) >= 2

\* C12: if the table list holds, or comes to hold through its dependencies, a
\* name without an importer, the run fails with the unknown-table error of the
\* check that precedes sortTableList, and no statement has reached the storage.
C12_UnknownTableFailsFirst ==
    run.error \in {"Unknown table", "TypeError"} =>
        /\ run.error = "Unknown table"
        /\ session = [foreign_key_checks |-> 1, unique_checks |-> 1]
        /\ working = InitialStorage

C15_ChecksReenabled ==
    ~opts.sqlite =>
        /\ run.pc \in {"resolve", "clear", "cleared", "basepack_read", "basepack_settings",
                       "basepack_import", "prepare", "generate", "finalise"} =>
               session = [foreign_key_checks |-> 0, unique_checks |-> 0]
        /\ run.pc \in {"commit", "resolved", "rejected"} =>
               session = [foreign_key_checks |-> 1, unique_checks |-> 1]

----------------------------------------------------------------------------
(* Claims about the importer on storage with dangling references, checked  *)
(* under SpecOrphan                                                        *)

\* the batch last handed to setReferencedModel names an email that is not loaded
batchOfMissingEmail ==
    /\ imp.pos > 0
    /\ \A k \in 1..Len(emails) : emails[k].id # imp.batch.email_id

poolMatchesEvents ==
    imp.phase = "generating" =>
        /\ Len(imp.events) = Len(imp.membersList)
        /\ imp.events # <<>> =>
               /\ imp.membersList # <<>>
               /\ memberIdIndexes(imp) \subseteq 0..(Len(imp.membersList) - 1)

\* C19 (as stated): between setReferencedModel and the batch's exhaustion the
\* events are as many as the members of the pool, a draw falls within the
\* pool, and the drawn member is always a loaded member: generate() never
\* fails on a missing member.
C19_DrawnMemberLoaded ==
    /\ poolMatchesEvents
    /\ imp.phase = "generating" => SeqToSet(imp.membersList) \subseteq members
    /\ ~(imp.phase = "failed" /\ imp.model # NoEmail)

\* C19 (amended): between setReferencedModel and the batch's exhaustion the
\* events are as many as the members of the pool and a draw falls within the
\* pool; generate() returns the row of the drawn member when that member is
\* loaded, and throws without a row when no loaded member has the drawn id.
C19_DrawnMemberLoadedOrThrows ==
    /\ []poolMatchesEvents
    /\ [][(imp.phase = "generating" /\ imp'.pos = imp.pos /\ imp.events # <<>>) =>
              LET drawn == SeqToSet(imp.membersList) \ SeqToSet(imp'.membersList)
              IN  /\ Cardinality(drawn) = 1
                  /\ \A m \in drawn :
                         IF m \in members
                         THEN /\ imp'.phase = "generating"
                              /\ Len(ret') = 1
                              /\ ret'[1].member_id = m
                         ELSE /\ imp'.phase = "failed"
                              /\ ret' = <<>>
                              /\ rows' = rows]_vars

\* generate() gave a row, then drew the member that is not loaded
C19_Witness ==
    /\ imp.phase = "failed"
    /\ imp.model # NoEmail
    /\ Len(rows) >= 1
    /\ Len(imp.events) = Len(imp.membersList)

----------------------------------------------------------------------------
(* Claim about two overlapping runs, checked under SpecTwo *)

\* C20: when two seeded importData runs of one process overlap, then once
\* both have ended crypto.randomBytes is the function it was before either
\* of them started.
C20_OverlappingRunsRestore ==
    (ended /\ runB.run.pc \in {"resolved", "rejected", "exited"}) => randomBytes = "original"

====
